---- MODULE Spec2Model ----
(***************************************************************************)
(* Model of etymology.py: the enrichment pipeline that resolves the words  *)
(* of every epithet against the Kotus lexicon and rewrites the output      *)
(* document after every epithet.                                           *)
(*                                                                         *)
(* Strings are sequences of one-character strings.  A Python dict is a     *)
(* sequence of <<key, value>> pairs with unique keys, in insertion order.  *)
(***************************************************************************)
EXTENDS Integers, Sequences, FiniteSets, TLC

\* ------------------------------------------------------------------------
\* Bounds of the model
\* ------------------------------------------------------------------------
MaxLen == 2            \* longest epithet list of an input document
MaxRuns == 2           \* number of times the program is started
MaxStr == 3            \* longest epithet of the runs over all strings

\* ------------------------------------------------------------------------
\* Strings
\* ------------------------------------------------------------------------

\* Code point of a character (Python compares str by code point).
Ord(c) ==
  CASE c = " " -> 32
    [] c = "-" -> 45
    [] c = "=" -> 61
    [] c = "?" -> 63
    [] c = "A" -> 65
    [] c = "B" -> 66
    [] c = "a" -> 97
    [] c = "b" -> 98
    [] c = "c" -> 99
    [] OTHER   -> 0

\* str.lower() on one character.
LowerChar(c) ==
  CASE c = "A" -> "a"
    [] c = "B" -> "b"
    [] OTHER   -> c

\* str.lower()
Lower(s) == [j \in 1..Len(s) |-> LowerChar(s[j])]

\* The character class [a-zäåö -] of clean_epithet.
Allowed(c) == (Ord(c) >= 97 /\ Ord(c) <= 122) \/ c = " " \/ c = "-"

RECURSIVE Filter(_)
Filter(s) ==
  IF s = <<>> THEN <<>>
  ELSE IF Allowed(Head(s)) THEN <<Head(s)>> \o Filter(Tail(s))
  ELSE Filter(Tail(s))

\* A value of the input list that is not a str (a JSON number); it has no
\* lower() method.
NonStr == <<"<int>">>

IsStr(e) == e # NonStr

\* clean_epithet: re.sub(r"[^a-zäåö -]", "", epithet.lower())
clean_epithet(epithet) == Filter(Lower(epithet))

\* Variant of Split: empty parts are dropped, as str.split() without a
\* separator does.
SplitNonEmpty(s, sep) ==
  LET RECURSIVE Acc(_, _, _)
      Acc(rest, part, acc) ==
        IF rest = <<>>
        THEN (IF part = <<>> THEN acc ELSE Append(acc, part))
        ELSE IF Head(rest) = sep
        THEN Acc(Tail(rest), <<>>,
                 IF part = <<>> THEN acc ELSE Append(acc, part))
        ELSE Acc(Tail(rest), Append(part, Head(rest)), acc)
  IN  Acc(s, <<>>, <<>>)

\* str.split(sep) with a one-character separator: "" gives [""].
RECURSIVE SplitAcc(_, _, _, _)
SplitAcc(s, sep, part, acc) ==
  IF s = <<>> THEN Append(acc, part)
  ELSE IF Head(s) = sep THEN SplitAcc(Tail(s), sep, <<>>, Append(acc, part))
  ELSE SplitAcc(Tail(s), sep, Append(part, Head(s)), acc)

Split(s, sep) == SplitAcc(s, sep, <<>>, <<>>)

Range(f) == {f[j] : j \in DOMAIN f}

\* finn_syll.split(segment): the segment with "=" at its compound
\* boundaries.  The compounds the model knows: "bb" is "b" + "b", and
\* "bba" is "bb" + "a".
FinnSyllSplit(segment) ==
  IF segment = <<"b", "b">> THEN <<"b", "=", "b">>
  ELSE IF segment = <<"b", "b", "a">> THEN <<"b", "b", "=", "a">>
  ELSE segment

\* The compound parts added for one segment (lines 100-102).
CompoundParts(segment) ==
  LET compound_words == Split(FinnSyllSplit(segment), "=")
  IN  IF Len(compound_words) > 1 THEN Range(compound_words) ELSE {}

\* Variant of to_words: a compound is replaced by its parts.
to_words_parts(epithet) ==
  LET segments == Range(Split(epithet, " "))
  IN  UNION {IF CompoundParts(segment) = {} THEN {segment}
             ELSE CompoundParts(segment) : segment \in segments}

\* to_words: the space separated segments and the parts of the compounds.
to_words(epithet) ==
  LET segments == Range(Split(epithet, " "))
  IN  segments \cup UNION {CompoundParts(segment) : segment \in segments}

\* Python's order on str: lexicographic by code point.
RECURSIVE StrLess(_, _)
StrLess(a, b) ==
  IF b = <<>> THEN FALSE
  ELSE IF a = <<>> THEN TRUE
  ELSE IF Ord(Head(a)) < Ord(Head(b)) THEN TRUE
  ELSE IF Ord(Head(a)) > Ord(Head(b)) THEN FALSE
  ELSE StrLess(Tail(a), Tail(b))

\* ------------------------------------------------------------------------
\* dict
\* ------------------------------------------------------------------------
Keys(d) == {d[j][1] : j \in DOMAIN d}

HasKey(d, k) == \E j \in DOMAIN d : d[j][1] = k

Get(d, k) == d[CHOOSE j \in DOMAIN d : d[j][1] = k][2]

\* Variant of DictSet: an existing key is removed and put last.
DictSetLast(d, k, v) ==
  LET others == SelectSeq(d, LAMBDA item : item[1] # k)
  IN  Append(others, <<k, v>>)

\* d[k] = v: an existing key keeps its position, a new key goes last.
DictSet(d, k, v) ==
  IF HasKey(d, k)
  THEN [j \in DOMAIN d |-> IF d[j][1] = k THEN <<k, v>> ELSE d[j]]
  ELSE Append(d, <<k, v>>)

\* Insert one item into a list sorted by key.
RECURSIVE InsertSorted(_, _)
InsertSorted(item, d) ==
  IF d = <<>> THEN <<item>>
  ELSE IF StrLess(item[1], Head(d)[1]) THEN <<item>> \o d
  ELSE <<Head(d)>> \o InsertSorted(item, Tail(d))

\* Variant of SortedDict: the dict as it is, not sorted.
UnsortedDict(d) == d

\* dict(sorted(d.items())): the items in increasing key order.
RECURSIVE SortedDict(_)
SortedDict(d) ==
  IF d = <<>> THEN <<>>
  ELSE InsertSorted(d[Len(d)], SortedDict(SubSeq(d, 1, Len(d) - 1)))

\* ------------------------------------------------------------------------
\* Entries of a submap
\* ------------------------------------------------------------------------

\* None
Null == [isNull |-> TRUE, definition |-> "", url |-> <<>>]

\* Kotus._etym_link.format(etym_id=...)
EtymLink(etym_id) == <<"https://kaino.kotus.fi/ses/?p=article&etym_id=", etym_id>>

\* {"definition": ..., "url": ...}
EntryOf(definition, url) ==
  [isNull |-> FALSE, definition |-> definition, url |-> url]

\* ------------------------------------------------------------------------
\* JSON text of the output document
\*
\* The text is a sequence of lexemes.  The root object is a sequence of
\* members [key, isDict, str, dict]: the member "etymologies" holds the
\* dict epithet -> submap, any other member holds a string.
\* ------------------------------------------------------------------------
Tok(t, s) == [t |-> t, s |-> s]

LB == Tok("{", <<>>)

RB == Tok("}", <<>>)

Member(key, isDict, str, dict) ==
  [key |-> key, isDict |-> isDict, str |-> str, dict |-> dict]

DumpsEntry(v) ==
  IF v.isNull THEN <<Tok("null", <<>>)>>
  ELSE <<LB, Tok("key", <<"definition">>), Tok("str", <<v.definition>>),
             Tok("key", <<"url">>), Tok("str", v.url), RB>>

RECURSIVE DumpsSubmapItems(_)
DumpsSubmapItems(d) ==
  IF d = <<>> THEN <<>>
  ELSE <<Tok("key", Head(d)[1])>> \o DumpsEntry(Head(d)[2])
       \o DumpsSubmapItems(Tail(d))

DumpsSubmap(d) == <<LB>> \o DumpsSubmapItems(d) \o <<RB>>

RECURSIVE DumpsEtymologyItems(_)
DumpsEtymologyItems(d) ==
  IF d = <<>> THEN <<>>
  ELSE <<Tok("key", Head(d)[1])>> \o DumpsSubmap(Head(d)[2])
       \o DumpsEtymologyItems(Tail(d))

DumpsEtymologies(d) == <<LB>> \o DumpsEtymologyItems(d) \o <<RB>>

RECURSIVE DumpsMembers(_)
DumpsMembers(r) ==
  IF r = <<>> THEN <<>>
  ELSE <<Tok("key", <<Head(r).key>>)>>
       \o (IF Head(r).isDict THEN DumpsEtymologies(Head(r).dict)
           ELSE <<Tok("str", <<Head(r).str>>)>>)
       \o DumpsMembers(Tail(r))

\* The text of the member "etymologies" alone.
DumpsEtymologiesOnly(r) ==
  <<LB>> \o DumpsMembers(SelectSeq(r, LAMBDA m : m.key = "etymologies"))
         \o <<RB>>

\* json.dumps(etymologies_root, indent=2, ensure_ascii=False)
Dumps(r) == <<LB>> \o DumpsMembers(r) \o <<RB>>

\* Results of the parsers: ok, the value and the rest of the text.
Parsed(val, rest) == [ok |-> TRUE, val |-> val, rest |-> rest]

Failed(val) == [ok |-> FALSE, val |-> val, rest |-> <<>>]

ParseEntry(ts) ==
  IF ts = <<>> THEN Failed(Null)
  ELSE IF Head(ts).t = "null" THEN Parsed(Null, Tail(ts))
  ELSE IF /\ Len(ts) >= 6
          /\ ts[1] = LB
          /\ ts[2] = Tok("key", <<"definition">>)
          /\ ts[3].t = "str"
          /\ ts[4] = Tok("key", <<"url">>)
          /\ ts[5].t = "str"
          /\ ts[6] = RB
       THEN Parsed(EntryOf(ts[3].s[1], ts[5].s), SubSeq(ts, 7, Len(ts)))
  ELSE Failed(Null)

RECURSIVE ParseSubmapItems(_, _)
ParseSubmapItems(ts, acc) ==
  IF ts = <<>> THEN Failed(<<>>)
  ELSE IF Head(ts) = RB THEN Parsed(acc, Tail(ts))
  ELSE IF Head(ts).t = "key"
       THEN LET r == ParseEntry(Tail(ts))
            IN  IF r.ok
                THEN ParseSubmapItems(r.rest, DictSet(acc, Head(ts).s, r.val))
                ELSE Failed(<<>>)
  ELSE Failed(<<>>)

ParseSubmap(ts) ==
  IF ts # <<>> /\ Head(ts) = LB THEN ParseSubmapItems(Tail(ts), <<>>)
  ELSE Failed(<<>>)

RECURSIVE ParseEtymologyItems(_, _)
ParseEtymologyItems(ts, acc) ==
  IF ts = <<>> THEN Failed(<<>>)
  ELSE IF Head(ts) = RB THEN Parsed(acc, Tail(ts))
  ELSE IF Head(ts).t = "key"
       THEN LET r == ParseSubmap(Tail(ts))
            IN  IF r.ok
                THEN ParseEtymologyItems(r.rest,
                                         DictSet(acc, Head(ts).s, r.val))
                ELSE Failed(<<>>)
  ELSE Failed(<<>>)

ParseEtymologies(ts) ==
  IF ts # <<>> /\ Head(ts) = LB THEN ParseEtymologyItems(Tail(ts), <<>>)
  ELSE Failed(<<>>)

\* The position of the member named key in the root, 0 when there is none.
MemberIndex(r, key) ==
  IF \E j \in DOMAIN r : r[j].key = key
  THEN CHOOSE j \in DOMAIN r : r[j].key = key
  ELSE 0

\* r[m.key] = m
SetMember(r, m) ==
  IF MemberIndex(r, m.key) = 0 THEN Append(r, m)
  ELSE [r EXCEPT ![MemberIndex(r, m.key)] = m]

RECURSIVE ParseMembers(_, _)
ParseMembers(ts, acc) ==
  IF ts = <<>> THEN Failed(<<>>)
  ELSE IF Head(ts) = RB THEN Parsed(acc, Tail(ts))
  ELSE IF Head(ts).t = "key" /\ Len(ts) >= 2
       THEN IF ts[2].t = "str"
            THEN ParseMembers(SubSeq(ts, 3, Len(ts)),
                   SetMember(acc, Member(ts[1].s[1], FALSE, ts[2].s[1], <<>>)))
            ELSE LET r == ParseEtymologies(Tail(ts))
                 IN  IF r.ok
                     THEN ParseMembers(r.rest,
                            SetMember(acc, Member(ts[1].s[1], TRUE, "", r.val)))
                     ELSE Failed(<<>>)
  ELSE Failed(<<>>)

\* json.load(file): fails (JSONDecodeError) on an empty or truncated text.
Loads(ts) ==
  IF ts # <<>> /\ Head(ts) = LB
  THEN LET r == ParseMembers(Tail(ts), <<>>)
       IN  IF r.ok /\ r.rest = <<>> THEN r ELSE Failed(<<>>)
  ELSE Failed(<<>>)

\* Variant of SetDefaultEtymologies: an assignment for setdefault.
ResetEtymologies(r) ==
  SetMember(r, Member("etymologies", TRUE, "", <<>>))

\* etymologies_root.setdefault("etymologies", {})
SetDefaultEtymologies(r) ==
  IF MemberIndex(r, "etymologies") = 0
  THEN Append(r, Member("etymologies", TRUE, "", <<>>))
  ELSE r

\* etymologies_root["etymologies"]
Etymologies(r) == r[MemberIndex(r, "etymologies")].dict

\* Variant of SetSubmap: the dict is replaced by one with this epithet only.
SetSubmapOnly(r, e, submap) ==
  [r EXCEPT ![MemberIndex(r, "etymologies")].dict = <<<<e, submap>>>>]

\* etymologies[epithet] = submap, on the dict held by the root.
SetSubmap(r, e, submap) ==
  [r EXCEPT ![MemberIndex(r, "etymologies")].dict = DictSet(@, e, submap)]

\* ------------------------------------------------------------------------
\* The lexicon service: the responses a request for a word can get
\* ------------------------------------------------------------------------

\* A candidate the service returns for a prefix of it: word + "c".
Near(word) == Append(word, "c")

Timeout == [kind |-> "timeout", status |-> 0, json |-> FALSE, records |-> <<>>]

Http(status, json, records) ==
  [kind |-> "http", status |-> status, json |-> json, records |-> records]

\* No request made.
NoRequest == [kind |-> "none", status |-> 0, json |-> FALSE, records |-> <<>>]

\* One record of a response: "value" of the existence request, "hakusana",
\* "selite" and "etym_id" of the detail request.
RecordOf(key, selite, etym_id) ==
  [key |-> key, selite |-> selite, etym_id |-> etym_id]

\* Responses to the request m=qs-ajax-results of word_exists.
ExistsResponses(word) ==
  { Timeout,
    Http(200, FALSE, <<>>),
    Http(200, TRUE, <<RecordOf(Near(word), "", "")>>),
    Http(200, TRUE, <<RecordOf(Near(word), "", ""), RecordOf(word, "", "")>>),
    Http(500, TRUE, <<>>) }

\* Responses to the request m=qs-results of search.
DetailResponses(word) ==
  { Timeout,
    Http(200, FALSE, <<>>),
    Http(200, TRUE, <<RecordOf(Near(word), "near", "4")>>),
    Http(200, TRUE, <<RecordOf(Near(word), "near", "4"),
                      RecordOf(word, "old", "5")>>),
    Http(500, TRUE, <<RecordOf(word, "old", "5")>>) }

\* requests.get raises on a timeout; response.json() raises on a body that
\* is not JSON.  word_exists does not look at the status.
ExistsRaises(response) == response.kind = "timeout" \/ ~response.json

\* Variant of word_exists: any candidate counts, not only an exact match.
word_exists_any(response, word) == response.records # <<>>

\* any(e["value"] == word for e in response.json()["record"])
word_exists(response, word) ==
  \E j \in DOMAIN response.records : response.records[j].key = word

\* requests.get, raise_for_status() and response.json() of search.
DetailRaises(response) ==
  \/ response.kind = "timeout"
  \/ response.status >= 400
  \/ ~response.json

\* next((e for e in data["record"] if e["hakusana"] == word), None) and the
\* Etymology built from it, as the value search_etymologies stores.
search_result(response, word) ==
  IF \E j \in DOMAIN response.records : response.records[j].key = word
  THEN LET j == CHOOSE j \in DOMAIN response.records :
                  /\ response.records[j].key = word
                  /\ \A h \in 1..(j - 1) : response.records[h].key # word
           record == response.records[j]
       IN  EntryOf(record.selite, EtymLink(record.etym_id))
  ELSE Null

\* ------------------------------------------------------------------------
\* Inputs
\* ------------------------------------------------------------------------
E1 == <<"B", " ", "?">>      \* "B ?": cleans to "b ", words "b" and ""

E2 == <<"b", "b">>           \* "bb": a compound, words "bb" and "b"

InputElements == {E1, E2, NonStr}

RECURSIVE ListsUpTo(_)
ListsUpTo(n) ==
  IF n = 0 THEN {<<>>}
  ELSE LET shorter == ListsUpTo(n - 1)
       IN  shorter \cup {Append(l, e) : l \in shorter, e \in InputElements}

\* epithets.json: missing or not JSON, without the key "epithets", with a
\* number under it, or with a list.
InputDoc(kind, epithets) == [kind |-> kind, epithets |-> epithets]

InputDocs ==
  {InputDoc("missing", <<>>), InputDoc("nokey", <<>>), InputDoc("notseq", <<>>)}
  \cup {InputDoc("list", l) : l \in ListsUpTo(MaxLen)}

\* etymologies.json as an earlier run can have left it: another top-level
\* member, and for E1 a word found absent and a word of an older word set.
SeedRoot ==
  << Member("meta", FALSE, "v1", <<>>),
     Member("etymologies", TRUE, "",
            << <<E1, << <<<<"b">>, Null>>,
                        <<<<"c">>, EntryOf("old", EtymLink("5"))>> >> >> >>) >>

NoFile == [exists |-> FALSE, text |-> <<>>]

FileOf(text) == [exists |-> TRUE, text |-> text]

InitialFiles == {NoFile, FileOf(Dumps(SeedRoot))}

\* ------------------------------------------------------------------------
\* State
\* ------------------------------------------------------------------------
VARIABLES
  pc,                  \* where the process is: "start", "loop", "words",
                       \* "exists", "detail", "opened", "done", "aborted",
                       \* "crashed"
  run,                 \* how many times the program has been started
  OVERWRITE_EXISTING,  \* the overwrite policy of this run
  input,               \* epithets.json
  file,                \* etymologies.json: whether it exists, and its text
  root,                \* etymologies_root
  i,                   \* position of the for loop in the epithets
  epithet_etymologies, \* the dict search_etymologies works on
  words,               \* the words the loop of search_etymologies has left
  word,                \* the word Kotus.search is looking up
  log,                 \* history: the lookups of this run and their responses
  committed,           \* history: the file as the last completed write left it
  writes,              \* history: the completed writes of the file in this run
  startFile,           \* history: the file when this run started
  halt,                \* history: why and where this run stopped
  prev                 \* history: why and where the run before it stopped

vars == <<pc, run, OVERWRITE_EXISTING, input, file, root, i,
          epithet_etymologies, words, word, log, committed, writes,
          startFile, halt, prev>>

Running == [cause |-> "none", pos |-> 0, phase |-> "none"]

Halt(cause, pos, phase) == [cause |-> cause, pos |-> pos, phase |-> phase]

\* The epithet the for loop is at.
epithet == input.epithets[i]

\* Variant of Aliased: a new dict for every epithet.
NeverAliased == FALSE

\* etymologies.get(epithet, {}) returns the dict the store holds, when it
\* holds one: assignments to it are assignments to the store.
Aliased == HasKey(Etymologies(root), epithet)

Init ==
  /\ pc = "start"
  /\ run = 1
  /\ OVERWRITE_EXISTING \in BOOLEAN
  /\ input \in InputDocs
  /\ file \in InitialFiles
  /\ root = <<>>
  /\ i = 0
  /\ epithet_etymologies = <<>>
  /\ words = {}
  /\ word = <<>>
  /\ log = {}
  /\ committed = file
  /\ writes = 0
  /\ startFile = file
  /\ halt = Running
  /\ prev = Running

\* The process ends with an exception.
Abort(cause) ==
  /\ pc' = "aborted"
  /\ halt' = Halt(cause, i, pc)

\* ------------------------------------------------------------------------
\* main and the head of update_etymologies (lines 149-161, 110-113)
\* ------------------------------------------------------------------------
Main ==
  /\ pc = "start"
  /\ LET loaded == Loads(file.text) IN
     IF input.kind = "missing"
     THEN /\ Abort("input")
          /\ UNCHANGED <<root, i>>
     ELSE IF file.exists /\ ~loaded.ok
     THEN /\ Abort("store")
          /\ UNCHANGED <<root, i>>
     ELSE /\ root' = SetDefaultEtymologies(IF file.exists THEN loaded.val
                                           ELSE <<>>)
          /\ IF input.kind = "list"
             THEN /\ pc' = "loop"
                  /\ i' = 1
                  /\ UNCHANGED halt
             ELSE /\ Abort("input")
                  /\ UNCHANGED i
  /\ UNCHANGED <<run, OVERWRITE_EXISTING, input, file, epithet_etymologies,
                 words, word, log, committed, writes, startFile, prev>>

\* for epithet in epithets: lines 113-115 and 125-126.
NextEpithet ==
  /\ pc = "loop"
  /\ i <= Len(input.epithets)
  /\ IF IsStr(epithet)
     THEN /\ epithet_etymologies' =
               (IF Aliased THEN Get(Etymologies(root), epithet) ELSE <<>>)
          /\ words' = to_words(clean_epithet(epithet))
          /\ pc' = "words"
          /\ UNCHANGED halt
     ELSE /\ Abort("input")
          /\ UNCHANGED <<epithet_etymologies, words>>
  /\ UNCHANGED <<run, OVERWRITE_EXISTING, input, file, root, i, word, log,
                 committed, writes, startFile, prev>>

\* The for loop is exhausted: update_etymologies and main return.
Finish ==
  /\ pc = "loop"
  /\ i > Len(input.epithets)
  /\ pc' = "done"
  /\ halt' = Halt("done", i, pc)
  /\ UNCHANGED <<run, OVERWRITE_EXISTING, input, file, root, i,
                 epithet_etymologies, words, word, log, committed, writes, startFile,
                 prev>>

\* ------------------------------------------------------------------------
\* search_etymologies (lines 128-146) and Kotus.search (lines 62-87)
\* ------------------------------------------------------------------------

\* Variant of Skips: "or" for "and" in the test.
SkipsOr(w) == HasKey(epithet_etymologies, w) \/ ~OVERWRITE_EXISTING

\* Variant of Skips: the word is looked for in the submaps of all epithets.
SkipsAnyEpithet(w) ==
  /\ \E j \in DOMAIN Etymologies(root) : HasKey(Etymologies(root)[j][2], w)
  /\ ~OVERWRITE_EXISTING

\* Variant of Skips: the policy is not looked at.
SkipsKnown(w) == HasKey(epithet_etymologies, w)

\* The test of line 129.
Skips(w) == HasKey(epithet_etymologies, w) /\ ~OVERWRITE_EXISTING

\* Lines 129-133: the word is already there, continue.
SkipWord ==
  /\ pc = "words"
  /\ \E w \in words :
       /\ Skips(w)
       /\ words' = words \ {w}
  /\ UNCHANGED <<pc, run, OVERWRITE_EXISTING, input, file, root, i,
                 epithet_etymologies, word, log, committed, writes, startFile, halt,
                 prev>>

\* Lines 135, 65, 53-59: Kotus().search(word) sends the existence request.
QueryWord ==
  /\ pc = "words"
  /\ \E w \in words :
       /\ ~Skips(w)
       /\ words' = words \ {w}
       /\ word' = w
       /\ log' = log \cup {[pos |-> i, word |-> w, ex |-> NoRequest,
                            det |-> NoRequest]}
  /\ pc' = "exists"
  /\ UNCHANGED <<run, OVERWRITE_EXISTING, input, file, root, i,
                 epithet_etymologies, committed, writes, startFile, halt, prev>>

\* Variant of SetItem: a word that was not found is left out.
SetItemIfFound(value) ==
  /\ epithet_etymologies' =
       (IF value = Null THEN epithet_etymologies
        ELSE DictSet(epithet_etymologies, word, value))
  /\ root' = IF Aliased /\ value # Null
             THEN SetSubmap(root, epithet,
                            DictSet(epithet_etymologies, word, value))
             ELSE root

\* epithet_etymologies[word] = value (line 137).
SetItem(value) ==
  /\ epithet_etymologies' = DictSet(epithet_etymologies, word, value)
  /\ root' = IF Aliased
             THEN SetSubmap(root, epithet,
                            DictSet(epithet_etymologies, word, value))
             ELSE root

\* The lookup of this word in the log.
Lookup == CHOOSE l \in log : l.pos = i /\ l.word = word

\* Variant of ExistsResponse: search without the early return, so that
\* the detail request follows every existence response.
ExistsResponseNoReturn ==
  /\ pc = "exists"
  /\ \E response \in ExistsResponses(word) :
       /\ log' = (log \ {Lookup}) \cup {[Lookup EXCEPT !.ex = response]}
       /\ IF ExistsRaises(response)
          THEN Abort("lexicon")
          ELSE /\ pc' = "detail"
               /\ UNCHANGED halt
  /\ UNCHANGED <<run, OVERWRITE_EXISTING, input, file, root, i,
                 epithet_etymologies, words, word, committed, writes,
                 startFile, prev>>

\* Lines 60, 65-67: the existence response arrives; the word is absent, or
\* the detail request is sent (lines 69-75).
ExistsResponse ==
  /\ pc = "exists"
  /\ \E response \in ExistsResponses(word) :
       /\ log' = (log \ {Lookup}) \cup {[Lookup EXCEPT !.ex = response]}
       /\ IF ExistsRaises(response)
          THEN /\ Abort("lexicon")
               /\ UNCHANGED <<epithet_etymologies, root>>
          ELSE IF word_exists(response, word)
          THEN /\ pc' = "detail"
               /\ UNCHANGED <<epithet_etymologies, root, halt>>
          ELSE /\ SetItem(Null)
               /\ pc' = "words"
               /\ UNCHANGED halt
  /\ UNCHANGED <<run, OVERWRITE_EXISTING, input, file, i, words, word,
                 committed, writes, startFile, prev>>

\* Variant of DetailResponse: next() without the default None, so that a
\* response without the record raises.
DetailResponseStrict ==
  /\ pc = "detail"
  /\ \E response \in DetailResponses(word) :
       /\ log' = (log \ {Lookup}) \cup {[Lookup EXCEPT !.det = response]}
       /\ IF DetailRaises(response) \/ search_result(response, word) = Null
          THEN /\ Abort("lexicon")
               /\ UNCHANGED <<epithet_etymologies, root>>
          ELSE /\ SetItem(search_result(response, word))
               /\ pc' = "words"
               /\ UNCHANGED halt
  /\ UNCHANGED <<run, OVERWRITE_EXISTING, input, file, i, words, word,
                 committed, writes, startFile, prev>>

\* Lines 76-87 and 137-144: the detail response arrives.
DetailResponse ==
  /\ pc = "detail"
  /\ \E response \in DetailResponses(word) :
       /\ log' = (log \ {Lookup}) \cup {[Lookup EXCEPT !.det = response]}
       /\ IF DetailRaises(response)
          THEN /\ Abort("lexicon")
               /\ UNCHANGED <<epithet_etymologies, root>>
          ELSE /\ SetItem(search_result(response, word))
               /\ pc' = "words"
               /\ UNCHANGED halt
  /\ UNCHANGED <<run, OVERWRITE_EXISTING, input, file, i, words, word,
                 committed, writes, startFile, prev>>

\* ------------------------------------------------------------------------
\* The end of an epithet: lines 146, 115 and 118-119
\* ------------------------------------------------------------------------

\* Variant of OpenOutput: the file is written after the last epithet only.
OpenOutputLast ==
  /\ pc = "words"
  /\ words = {}
  /\ root' = SetSubmap(root, epithet, SortedDict(epithet_etymologies))
  /\ IF i < Len(input.epithets)
     THEN /\ i' = i + 1
          /\ pc' = "loop"
          /\ UNCHANGED file
     ELSE /\ file' = FileOf(<<>>)
          /\ pc' = "opened"
          /\ UNCHANGED i
  /\ UNCHANGED <<run, OVERWRITE_EXISTING, input, epithet_etymologies,
                 words, word, log, committed, writes, startFile, halt, prev>>

\* The words are exhausted: search_etymologies returns the sorted dict, it
\* becomes the submap of the epithet, and open(ETYMOLOGIES, "w") truncates
\* the output file.
OpenOutput ==
  /\ pc = "words"
  /\ words = {}
  /\ root' = SetSubmap(root, epithet, SortedDict(epithet_etymologies))
  /\ file' = FileOf(<<>>)
  /\ pc' = "opened"
  /\ UNCHANGED <<run, OVERWRITE_EXISTING, input, i, epithet_etymologies,
                 words, word, log, committed, writes, startFile, halt, prev>>

\* As OpenOutput, but open() raises (the file cannot be opened for writing).
OpenFails ==
  /\ pc = "words"
  /\ words = {}
  /\ root' = SetSubmap(root, epithet, SortedDict(epithet_etymologies))
  /\ Abort("output")
  /\ UNCHANGED <<run, OVERWRITE_EXISTING, input, file, i,
                 epithet_etymologies, words, word, log, committed, writes, startFile,
                 prev>>

\* Variant of WriteOutput: the member "etymologies" alone is written.
WriteOutputEtymologiesOnly ==
  /\ pc = "opened"
  /\ file' = FileOf(DumpsEtymologiesOnly(root))
  /\ committed' = FileOf(DumpsEtymologiesOnly(root))
  /\ writes' = writes + 1
  /\ i' = i + 1
  /\ pc' = "loop"
  /\ UNCHANGED <<run, OVERWRITE_EXISTING, input, root, epithet_etymologies,
                 words, word, log, startFile, halt, prev>>

\* file.write(json.dumps(etymologies_root)) and the close of the file.
WriteOutput ==
  /\ pc = "opened"
  /\ file' = FileOf(Dumps(root))
  /\ committed' = FileOf(Dumps(root))
  /\ writes' = writes + 1
  /\ i' = i + 1
  /\ pc' = "loop"
  /\ UNCHANGED <<run, OVERWRITE_EXISTING, input, root, epithet_etymologies,
                 words, word, log, startFile, halt, prev>>

\* The write fails (disk full): a proper prefix of the text is in the file,
\* here its first lexeme or all but its last.
WriteFails ==
  /\ pc = "opened"
  /\ \E n \in {1, Len(Dumps(root)) - 1} :
       file' = FileOf(SubSeq(Dumps(root), 1, n))
  /\ Abort("output")
  /\ UNCHANGED <<run, OVERWRITE_EXISTING, input, root, i,
                 epithet_etymologies, words, word, log, committed, writes, startFile,
                 prev>>

\* ------------------------------------------------------------------------
\* The environment: the process is killed; the program is started again
\* ------------------------------------------------------------------------
Live == {"start", "loop", "words", "exists", "detail", "opened"}

\* The process is interrupted: its memory is gone, the files stay.
Interrupt ==
  /\ pc \in Live
  /\ pc' = "crashed"
  /\ halt' = Halt("interrupt", i, pc)
  /\ root' = <<>>
  /\ i' = 0
  /\ epithet_etymologies' = <<>>
  /\ words' = {}
  /\ word' = <<>>
  /\ log' = {}
  /\ UNCHANGED <<run, OVERWRITE_EXISTING, input, file, committed, writes, startFile,
                 prev>>

\* The program is run again on the same input, with the policy of line 21.
Restart ==
  /\ pc \in {"done", "aborted", "crashed"}
  /\ run < MaxRuns
  /\ run' = run + 1
  /\ OVERWRITE_EXISTING' = FALSE
  /\ pc' = "start"
  /\ root' = <<>>
  /\ i' = 0
  /\ epithet_etymologies' = <<>>
  /\ words' = {}
  /\ word' = <<>>
  /\ log' = {}
  /\ startFile' = file
  /\ prev' = halt
  /\ halt' = Running
  /\ writes' = 0
  /\ UNCHANGED <<input, file, committed>>

Next ==
  \/ Main
  \/ NextEpithet
  \/ Finish
  \/ SkipWord
  \/ QueryWord
  \/ ExistsResponse
  \/ DetailResponse
  \/ OpenOutput
  \/ OpenFails
  \/ WriteOutput
  \/ WriteFails
  \/ Interrupt
  \/ Restart

Spec == Init /\ [][Next]_vars

\* ------------------------------------------------------------------------
\* Views of the state used by the properties
\* ------------------------------------------------------------------------

\* The words of an epithet: lines 125-126.
WordSet(e) == to_words(clean_epithet(e))

\* The store a run loads from a file (lines 155-159 and 110): the dict
\* epithet -> submap, empty when there is no file or no such member.
StoreOf(f) ==
  IF f.exists /\ Loads(f.text).ok
     /\ MemberIndex(Loads(f.text).val, "etymologies") # 0
  THEN Etymologies(Loads(f.text).val)
  ELSE <<>>

\* The file holds a complete document.
Complete(f) == f.exists /\ Loads(f.text).ok

\* What a store holds for an epithet: whether it has the key, and the submap.
Held(store, e) ==
  IF HasKey(store, e) THEN [present |-> TRUE, submap |-> Get(store, e)]
  ELSE [present |-> FALSE, submap |-> <<>>]

\* The epithets of the input before position k.
Before(k) == {input.epithets[j] : j \in 1..(k - 1)}

\* The store holds a submap for e with every word of e's word set.
Resolved(store, e) == HasKey(store, e) /\ WordSet(e) \subseteq Keys(Get(store, e))

\* ------------------------------------------------------------------------
\* C1: the rewrite of the output document is all-or-nothing: in every
\* state the output file is the complete document of the last completed
\* write (the previous one until a write completes, then the new one); it
\* is never empty, truncated or partial.
\* ------------------------------------------------------------------------
C1_AllOrNothing == file = committed

\* ------------------------------------------------------------------------
\* C2: resumability checkpoint.  When the run stops on a lexicon error or
\* an interrupt between two persists while the k-th epithet is in work, the
\* output document holds the resolved submaps of the epithets 1..k-1 and,
\* for epithet k, what it held before the run; a restart with the policy
\* false sends no request for a word of the epithets 1..k-1.
\* ------------------------------------------------------------------------

\* The run stopped while the epithet at h.pos was in work, outside a persist.
StoppedInEpithet(h) ==
  /\ h.cause \in {"lexicon", "interrupt"}
  /\ h.phase \in {"loop", "words", "exists", "detail"}

\* The epithets before the stop are in the document, resolved.
EarlierKept ==
  StoppedInEpithet(halt) =>
    /\ file.exists => Complete(file)
    /\ \A e \in Before(halt.pos) : Resolved(StoreOf(file), e)
    /\ \A e \in Keys(StoreOf(startFile)) :
         /\ HasKey(StoreOf(file), e)
         /\ Keys(Get(StoreOf(startFile), e)) \subseteq Keys(Get(StoreOf(file), e))

\* After the restart no request is made for a word of the epithets that
\* were completed before the stop.
NoRequery ==
  (run > 1 /\ StoppedInEpithet(prev) /\ ~OVERWRITE_EXISTING) =>
    \A l \in log : input.epithets[l.pos] \notin Before(prev.pos)

\* The claim as stated: epithet k is as before the run.
C2_AsStated ==
  /\ EarlierKept
  /\ NoRequery
  /\ (StoppedInEpithet(halt) /\ halt.pos <= Len(input.epithets)) =>
       Held(StoreOf(file), input.epithets[halt.pos])
         = Held(StoreOf(startFile), input.epithets[halt.pos])

\* The claim as amended: epithet k is as before the run unless it occurs
\* among the epithets 1..k-1 (then it is as that occurrence resolved it).
C2_Checkpoint ==
  /\ EarlierKept
  /\ NoRequery
  /\ (StoppedInEpithet(halt) /\ halt.pos <= Len(input.epithets)
      /\ input.epithets[halt.pos] \notin Before(halt.pos)) =>
       Held(StoreOf(file), input.epithets[halt.pos])
         = Held(StoreOf(startFile), input.epithets[halt.pos])

\* A run stopped by a lexicon error in its second epithet, after the first
\* was persisted, and was started again.
C2_Witness ==
  /\ run = 2
  /\ prev.cause = "lexicon"
  /\ prev.pos = 2
  /\ pc = "done"
  /\ input.epithets[1] # input.epithets[2]
  /\ log # {}

\* ------------------------------------------------------------------------
\* C3: skip policy.  With the policy false, the step that takes a word w
\* of the epithet's word set sends a request for w exactly when w is not a
\* key of the epithet's own submap in the store; a key with the value null
\* counts, a key of another epithet's submap does not.
\* ------------------------------------------------------------------------
OwnKeys ==
  IF HasKey(Etymologies(root), epithet)
  THEN Keys(Get(Etymologies(root), epithet))
  ELSE {}

C3_SkipPolicy ==
  [][(/\ pc = "words"
      /\ ~OVERWRITE_EXISTING
      /\ words' # words
      /\ pc' \in {"words", "exists"})
     => \E w \in words :
          /\ words' = words \ {w}
          /\ (pc' = "exists") <=> (w \notin OwnKeys)
          /\ (pc' = "exists") => (word' = w)]_vars

\* A request is out for the word "b" of the second epithet although the
\* first epithet's submap has the key "b"; its value there is null, and the
\* first epithet was passed without a request for it.
C3_Witness ==
  /\ pc = "exists"
  /\ ~OVERWRITE_EXISTING
  /\ i = 2
  /\ word = <<"b">>
  /\ input.epithets[1] # epithet
  /\ HasKey(Etymologies(root), input.epithets[1])
  /\ HasKey(Get(Etymologies(root), input.epithets[1]), word)
  /\ Get(Get(Etymologies(root), input.epithets[1]), word) = Null
  /\ \A l \in log : ~(l.pos = 1 /\ l.word = word)

\* ------------------------------------------------------------------------
\* C4: idempotence.  A run with the policy false on the input of a
\* completed run, starting from the document that run left, sends no
\* request, and when it completes the output file is the one it started
\* from, lexeme for lexeme.
\* ------------------------------------------------------------------------
C4_Idempotent ==
  (run > 1 /\ prev.cause = "done" /\ ~OVERWRITE_EXISTING) =>
    /\ log = {}
    /\ pc = "done" => file = startFile

\* The second run over an input with a repeated epithet has completed and
\* has rewritten the document.
C4_Witness ==
  /\ run = 2
  /\ prev.cause = "done"
  /\ pc = "done"
  /\ Len(input.epithets) = 2
  /\ input.epithets[1] = input.epithets[2]
  /\ Complete(file)
  /\ Len(Get(StoreOf(file), input.epithets[1])) >= 2

\* ------------------------------------------------------------------------
\* C5: in every document in the output file the word keys of every
\* submap are in strictly increasing order, also in the submaps of epithets
\* the run has not processed.
\* ------------------------------------------------------------------------
StrictlySorted(d) ==
  \A j \in 1..(Len(d) - 1) : StrLess(d[j][1], d[j + 1][1])

Kept(a, b, same) ==
  \A j \in DOMAIN a :
    /\ HasKey(b, a[j][1])
    /\ \A h \in DOMAIN a[j][2] :
         /\ HasKey(Get(b, a[j][1]), a[j][2][h][1])
         /\ same => Get(Get(b, a[j][1]), a[j][2][h][1]) = a[j][2][h][2]

C6_NeverDeleted ==
  [][/\ (root # <<>> /\ root' # <<>>) =>
          Kept(Etymologies(root), Etymologies(root'), ~OVERWRITE_EXISTING)
     /\ (Complete(committed) /\ committed' # committed) =>
          Kept(StoreOf(committed), StoreOf(committed'),
               ~OVERWRITE_EXISTING)]_vars

\* The epithet E1 was processed and persisted, and its submap still has
\* the key "c", which is not a word of E1.
C6_Witness ==
  /\ pc = "loop"
  /\ i = 2
  /\ input.epithets[1] = E1
  /\ file = committed
  /\ <<"c">> \notin WordSet(E1)
  /\ Resolved(StoreOf(file), E1)
  /\ HasKey(Get(StoreOf(file), E1), <<"c">>)
  /\ \E l \in log : l.pos = 1

\* ------------------------------------------------------------------------
\* C7: after an epithet has been processed, every word of its word set is
\* a key of its submap, in the store and in the persisted document, with a
\* value that is a record {definition, url} or null; a word that was
\* looked up and not found is there with the value null.
\* ------------------------------------------------------------------------
IsEntry(v) ==
  \/ v = Null
  \/ /\ ~v.isNull
     /\ Len(v.url) = 2

\* The result the run got for a lookup that has returned: absent or found.
FoundNothing(l) ==
  \/ /\ ~ExistsRaises(l.ex)
     /\ l.ex.kind = "http"
     /\ \A j \in DOMAIN l.ex.records : l.ex.records[j].key # l.word
  \/ /\ l.det.kind = "http"
     /\ ~DetailRaises(l.det)
     /\ \A j \in DOMAIN l.det.records : l.det.records[j].key # l.word

ExplicitIn(store, e) ==
  /\ Resolved(store, e)
  /\ \A w \in WordSet(e) : IsEntry(Get(Get(store, e), w))

C7_AbsentExplicit ==
  (pc \in {"loop", "words", "exists", "detail", "opened", "done", "aborted"}
   /\ input.kind = "list") =>
    /\ \A e \in Before(i) :
         /\ ExplicitIn(Etymologies(root), e)
         /\ Complete(file) => ExplicitIn(StoreOf(file), e)
    /\ \A l \in log :
         (l.pos < i /\ FoundNothing(l)
          /\ \A m \in log :
               (input.epithets[m.pos] = input.epithets[l.pos]
                /\ m.word = l.word) => m.pos <= l.pos) =>
           /\ Get(Get(Etymologies(root), input.epithets[l.pos]), l.word) = Null
           /\ Complete(file) =>
                Get(Get(StoreOf(file), input.epithets[l.pos]), l.word) = Null

\* An epithet was processed and persisted whose lookup found nothing for
\* one word and a record for another.
C7_Witness ==
  /\ pc = "loop"
  /\ i = 2
  /\ Complete(file)
  /\ \E l \in log : l.pos = 1 /\ FoundNothing(l)
  /\ \E w \in WordSet(input.epithets[1]) :
       ~Get(Get(StoreOf(file), input.epithets[1]), w).isNull
  /\ \E w \in WordSet(input.epithets[1]) :
       Get(Get(StoreOf(file), input.epithets[1]), w) = Null

\* ------------------------------------------------------------------------
\* C8: an input error (the input document missing or malformed: no
\* "epithets", not a sequence, or a non-string element at any position)
\* aborts the run before any lexicon request is sent and before the output
\* file is written.
\* ------------------------------------------------------------------------
C8_InputErrorsFirst ==
  halt.cause = "input" => (log = {} /\ file = startFile)

\* ------------------------------------------------------------------------
\* C9: a timeout or a non-success status on the existence request or on
\* the detail request aborts the run at that point: the response is not
\* taken as a result, nothing is recorded for the word, nothing is retried.
\* ------------------------------------------------------------------------
BadResponse(response) ==
  \/ response.kind = "timeout"
  \/ response.kind = "http" /\ (response.status < 200 \/ response.status > 299)

C9_ServiceErrorsFatal ==
  \A l \in log :
    (BadResponse(l.ex) \/ BadResponse(l.det)) =>
      /\ pc = "aborted"
      /\ halt = Halt("lexicon", l.pos, IF BadResponse(l.ex) THEN "exists"
                                       ELSE "detail")
      /\ word = l.word

\* ------------------------------------------------------------------------
\* C10: a run that starts without a prior store and completes leaves a
\* document that maps every input epithet E to exactly the words of
\* WordSet(E), each with the record {definition, url of the etym id} of the
\* detail response when the existence response had an exact match and the
\* detail response a record with exactly that key, and with null
\* otherwise; the document has no other epithets.
\* ------------------------------------------------------------------------

\* The last lookup of word w for epithet e in this run.
LastLookup(e, w) ==
  CHOOSE l \in log :
    /\ input.epithets[l.pos] = e
    /\ l.word = w
    /\ \A m \in log :
         (input.epithets[m.pos] = e /\ m.word = w) => m.pos <= l.pos

\* What the responses of a lookup stand for.
Meaning(l) ==
  IF /\ \E j \in DOMAIN l.ex.records : l.ex.records[j].key = l.word
     /\ \E j \in DOMAIN l.det.records : l.det.records[j].key = l.word
  THEN LET j == CHOOSE j \in DOMAIN l.det.records :
                  l.det.records[j].key = l.word
       IN  [isNull |-> FALSE,
            definition |-> l.det.records[j].selite,
            url |-> <<"https://kaino.kotus.fi/ses/?p=article&etym_id=",
                      l.det.records[j].etym_id>>]
  ELSE Null

C10_FreshRun ==
  (run = 1 /\ pc = "done" /\ startFile = NoFile) =>
    /\ Keys(StoreOf(file)) = Range(input.epithets)
    /\ \A e \in Range(input.epithets) :
         /\ Keys(Get(StoreOf(file), e)) = WordSet(e)
         /\ \A w \in WordSet(e) :
              /\ \E l \in log : input.epithets[l.pos] = e /\ l.word = w
              /\ Get(Get(StoreOf(file), e), w) = Meaning(LastLookup(e, w))

\* A fresh run over two different epithets has completed; the existence
\* response of one lookup had only a near match, one word got a record and
\* one a null although the existence response had an exact match.
C10_Witness ==
  /\ run = 1
  /\ pc = "done"
  /\ startFile = NoFile
  /\ Len(input.epithets) = 2
  /\ input.epithets[1] # input.epithets[2]
  /\ \E l \in log : l.ex.json /\ Len(l.ex.records) = 1
  /\ \E l \in log : ~Meaning(l).isNull
  /\ \E l \in log : l.det.kind = "http" /\ Meaning(l) = Null

\* ------------------------------------------------------------------------
\* C11: with the policy true every word of the word set of every input
\* epithet is looked up in the run, also a word that is already a key of
\* the epithet's submap, and the stored entry becomes the result of that
\* lookup (which can differ from the entry that was there).
\* ------------------------------------------------------------------------

\* What the store holds for word w of epithet e.
Stored(store, e, w) == Get(Get(store, e), w)

\* The last lookup of word w for epithet e among the first n epithets.
LastLookupUpTo(e, w, n) ==
  CHOOSE l \in log :
    /\ l.pos <= n
    /\ input.epithets[l.pos] = e
    /\ l.word = w
    /\ \A m \in log :
         (m.pos <= n /\ input.epithets[m.pos] = e /\ m.word = w)
           => m.pos <= l.pos

C11_OverwriteRequeries ==
  (OVERWRITE_EXISTING /\ input.kind = "list"
   /\ pc \in {"loop", "words", "exists", "detail", "opened", "done",
              "aborted"}) =>
    \A j \in 1..writes :
      \A w \in WordSet(input.epithets[j]) :
        /\ \E l \in log : l.pos = j /\ l.word = w
        /\ pc \in {"loop", "done"} =>
             Stored(Etymologies(root), input.epithets[j], w)
               = Meaning(LastLookupUpTo(input.epithets[j], w, writes))
        /\ Complete(file) =>
             Stored(StoreOf(file), input.epithets[j], w)
               = Meaning(LastLookupUpTo(input.epithets[j], w, writes))

\* A run with the policy true has completed on a document in which "b" was
\* a key of E1 with the value null: "b" was looked up and is now a record.
C11_Witness ==
  /\ OVERWRITE_EXISTING
  /\ pc = "done"
  /\ HasKey(StoreOf(startFile), E1)
  /\ Stored(StoreOf(startFile), E1, <<"b">>) = Null
  /\ HasKey(StoreOf(file), E1)
  /\ ~Stored(StoreOf(file), E1, <<"b">>).isNull
  /\ \E l \in log : input.epithets[l.pos] = E1 /\ l.word = <<"b">>

\* ------------------------------------------------------------------------
\* C12: the data anomaly (the existence response has an exact match, the
\* detail response has no record with exactly that key) is not fatal: the
\* word is recorded as null, the run goes on with the other words and
\* epithets, and what it persists holds the null.
\* ------------------------------------------------------------------------
Anomaly(l) ==
  /\ l.ex.kind = "http"
  /\ l.ex.json
  /\ \E j \in DOMAIN l.ex.records : l.ex.records[j].key = l.word
  /\ l.det.kind = "http"
  /\ l.det.status = 200
  /\ l.det.json
  /\ \A j \in DOMAIN l.det.records : l.det.records[j].key # l.word

\* No later lookup of the same word of the same epithet.
IsLast(l) ==
  \A m \in log :
    (input.epithets[m.pos] = input.epithets[l.pos] /\ m.word = l.word)
      => m.pos <= l.pos

C12_AnomalyRecovered ==
  \A l \in log :
    Anomaly(l) =>
      /\ ~(pc = "aborted" /\ halt.phase = "detail" /\ halt.pos = l.pos
           /\ word = l.word)
      /\ (l.pos = i /\ pc \in {"words", "exists", "detail", "opened"}) =>
           /\ HasKey(epithet_etymologies, l.word)
           /\ Get(epithet_etymologies, l.word) = Null
      /\ (l.pos <= writes /\ IsLast(l)) =>
           /\ Stored(Etymologies(root), input.epithets[l.pos], l.word) = Null
           /\ Complete(file) =>
                Stored(StoreOf(file), input.epithets[l.pos], l.word) = Null
      /\ pc = "done" =>
           /\ writes = Len(input.epithets)
           /\ \A e \in Range(input.epithets) : Resolved(StoreOf(file), e)

\* A run has completed in which the first word looked up for the first
\* epithet met the anomaly; the other word of that epithet and the second
\* epithet were looked up after it and all of it is in the document.
C12_Witness ==
  /\ pc = "done"
  /\ Len(input.epithets) = 2
  /\ input.epithets[1] # input.epithets[2]
  /\ Len(epithet_etymologies) = 2
  /\ \E l \in log :
       /\ l.pos = 1
       /\ Anomaly(l)
       /\ Stored(StoreOf(file), input.epithets[1], l.word) = Null
       /\ \E m \in log : m.pos = 1 /\ m.word # l.word /\ ~Meaning(m).isNull
  /\ \E l \in log : l.pos = 2 /\ ~Meaning(l).isNull

\* ------------------------------------------------------------------------
\* C13: merge only after resolution.  While the words of an epithet are
\* being resolved, and when a lexicon error ends the run in the middle of
\* an epithet, the store in memory is the store of the last persist.
\* ------------------------------------------------------------------------

\* The words of an epithet are being resolved, or a lexicon error has just
\* ended that.
Resolving ==
  \/ pc \in {"words", "exists", "detail"}
  \/ pc = "aborted" /\ halt.cause = "lexicon"

\* The claim as stated: also for an epithet that already has a submap.
C13_AsStated == Resolving => Etymologies(root) = StoreOf(committed)

\* The epithets of a store, in its order.
KeySeq(store) == [j \in DOMAIN store |-> store[j][1]]

\* The lookup has returned a result that was recorded.
Returned(l) ==
  \/ /\ l.ex.kind = "http"
     /\ l.ex.json
     /\ \A j \in DOMAIN l.ex.records : l.ex.records[j].key # l.word
  \/ /\ l.det.kind = "http"
     /\ l.det.status < 400
     /\ l.det.json

\* The claim as amended: the store is the persisted one for an epithet
\* that is new to it; for an epithet that has a submap, that submap is the
\* dict the lookups write to, so it holds the persisted entries and the
\* results recorded so far, and the rest of the store is the persisted one.
\* The output file is not touched in either case.
C13_MergeAfterResolution ==
  Resolving =>
    LET P == StoreOf(committed)
        M == Etymologies(root)
    IN  /\ file = committed
        /\ KeySeq(M) = KeySeq(P)
        /\ \A f \in Keys(P) : f # epithet => Get(M, f) = Get(P, f)
        /\ HasKey(P, epithet) =>
             /\ Get(M, epithet) = epithet_etymologies
             /\ \A l \in log :
                  (l.pos = i /\ Returned(l)) =>
                    /\ HasKey(Get(M, epithet), l.word)
                    /\ Get(Get(M, epithet), l.word) = Meaning(l)
             /\ \A w \in Keys(Get(P, epithet)) :
                  /\ HasKey(Get(M, epithet), w)
                  /\ \/ Get(Get(M, epithet), w) = Get(Get(P, epithet), w)
                     \/ \E l \in log : l.pos = i /\ l.word = w /\ Returned(l)
             /\ \A w \in Keys(Get(M, epithet)) \ Keys(Get(P, epithet)) :
                  \E l \in log : l.pos = i /\ l.word = w /\ Returned(l)

\* A lexicon error has ended the run in an epithet that had a submap, after
\* a result for another of its words was recorded: the store in memory is
\* not the persisted one.
C13_Witness ==
  /\ pc = "aborted"
  /\ halt.cause = "lexicon"
  /\ HasKey(StoreOf(committed), epithet)
  /\ Etymologies(root) # StoreOf(committed)
  /\ \E l \in log : l.pos = i /\ Returned(l)

\* ------------------------------------------------------------------------
\* C14: the output file is rewritten in full exactly once for every
\* occurrence of an epithet in the input, after all words of that epithet
\* are resolved and never while a lexicon request is out; right after a
\* rewrite the document in the file is the store in memory; a run over an
\* empty list writes nothing.
\* ------------------------------------------------------------------------
C14_OncePerEpithet ==
  [][/\ (file' # file) =>
          \/ /\ pc = "words"
             /\ words = {}
             /\ pc' = "opened"
             /\ file' = FileOf(<<>>)
          \/ /\ pc = "opened"
             /\ pc' = "loop"
             /\ writes' = writes + 1
             /\ Complete(file')
             /\ Loads(file'.text).val = root'
             /\ StoreOf(file') = Etymologies(root')
          \/ /\ pc = "opened"
             /\ pc' = "aborted"
             /\ halt'.cause = "output"
     /\ (writes' # writes /\ pc' # "start") =>
          /\ writes' = writes + 1
          /\ i = writes'
          /\ i' = i + 1
          /\ file' # file
     /\ (pc' \in {"loop", "words", "exists", "detail"}) => writes' = i' - 1
     /\ (pc' \in {"exists", "detail"}) => file' = file
     /\ (pc' = "done") =>
          /\ writes' = Len(input.epithets)
          /\ writes' = 0 => file' = startFile]_vars

\* A run over a list with the same epithet twice has completed with two
\* rewrites, the second without a lexicon request.
C14_Witness ==
  /\ pc = "done"
  /\ writes = 2
  /\ input.epithets[1] = input.epithets[2]
  /\ log # {}
  /\ \A l \in log : l.pos = 1
  /\ Complete(file)
  /\ StoreOf(file) = Etymologies(root)

\* ------------------------------------------------------------------------
\* C15: the detail request of a lookup is sent only after the existence
\* response of that lookup had an exact match for the word; when it had
\* none, no detail request is sent and the word is recorded as absent.  A
\* lookup costs one request when the word does not exist and two when it
\* does.
\* ------------------------------------------------------------------------

\* The existence response of the lookup came back as a list of candidates.
ExistsAnswered(l) == l.ex.kind = "http" /\ l.ex.json

\* ... with the word among them.
ExactMatch(l) ==
  ExistsAnswered(l)
  /\ \E j \in DOMAIN l.ex.records : l.ex.records[j].key = l.word

\* The detail request of the lookup was sent.
DetailSent(l) ==
  \/ l.det.kind # "none"
  \/ pc = "detail" /\ l.pos = i /\ l.word = word

\* The requests of the lookup so far.
Requests(l) == 1 + (IF DetailSent(l) THEN 1 ELSE 0)

C15_ExistsThenDetail ==
  \A l \in log :
    /\ DetailSent(l) => ExactMatch(l)
    /\ ExactMatch(l) => Requests(l) = 2
    /\ (ExistsAnswered(l) /\ ~ExactMatch(l)) =>
         /\ Requests(l) = 1
         /\ (l.pos = i /\ pc \in {"words", "exists", "detail", "opened"}) =>
              /\ HasKey(epithet_etymologies, l.word)
              /\ Get(epithet_etymologies, l.word) = Null

\* Both kinds of lookup have happened for one epithet: one that ended with
\* the existence response (candidates, but not the word), one that went on
\* to the detail request.
C15_Witness ==
  /\ pc = "opened"
  /\ \E l \in log :
       /\ l.pos = i
       /\ ExistsAnswered(l)
       /\ l.ex.records # <<>>
       /\ ~ExactMatch(l)
       /\ Requests(l) = 1
  /\ \E l \in log :
       /\ l.pos = i
       /\ ExactMatch(l)
       /\ l.det.kind = "http"

\* ------------------------------------------------------------------------
\* C16: the epithets are processed in the order of the input, and the
\* epithet keys of every persisted document are those of the prior store
\* in their order, followed by the epithets that are new in this run in
\* the order of their first occurrence; an epithet that is processed again
\* stays where it is.
\* ------------------------------------------------------------------------

\* The epithets among the first n of the input that are not in prior, in
\* the order of their first occurrence.
RECURSIVE NewKeys(_, _)
NewKeys(prior, n) ==
  IF n = 0 THEN <<>>
  ELSE LET before == NewKeys(prior, n - 1)
           e == input.epithets[n]
       IN  IF e \in prior \/ e \in Range(before) THEN before
           ELSE Append(before, e)

C16_EpithetOrder ==
  input.kind = "list" =>
    /\ Complete(file) =>
         KeySeq(StoreOf(file))
           = KeySeq(StoreOf(startFile))
               \o NewKeys(Keys(StoreOf(startFile)), writes)
    /\ pc \in {"words", "exists", "detail", "opened"} => i = writes + 1
    /\ pc \in {"loop", "words", "exists", "detail", "opened", "done",
               "aborted"} =>
         \A l \in log : l.pos <= writes + 1

\* A run over <<E2, E1>> on a document that had E1 has completed: E1 was
\* processed last and is still the first key, E2 is the second.
C16_Witness ==
  /\ pc = "done"
  /\ input.epithets = <<E2, E1>>
  /\ KeySeq(StoreOf(startFile)) = <<E1>>
  /\ KeySeq(StoreOf(file)) = <<E1, E2>>
  /\ \E l \in log : l.pos = 2

\* ------------------------------------------------------------------------
\* Runs over one epithet, drawn from all strings up to MaxStr characters
\* ------------------------------------------------------------------------
Chars == {"a", "b", " ", "?"}

RECURSIVE Strings(_)
Strings(n) ==
  IF n = 0 THEN {<<>>}
  ELSE LET shorter == Strings(n - 1)
       IN  shorter \cup {Append(t, c) : t \in shorter, c \in Chars}

\* An epithet whose word set has the empty word and "b".
E3 == <<" ", "b">>

\* etymologies.json as an earlier run can have left it for E3: a record for
\* the empty word, and a word of an older word set.
SeedEmptyWord ==
  << Member("meta", FALSE, "v1", <<>>),
     Member("etymologies", TRUE, "",
            << <<E3, << <<<<>>, EntryOf("old", EtymLink("5"))>>,
                        <<<<"c">>, Null>> >> >> >>) >>

WordsFiles == {NoFile, FileOf(Dumps(SeedEmptyWord))}

InitWords ==
  /\ pc = "start"
  /\ run = 1
  /\ OVERWRITE_EXISTING \in BOOLEAN
  /\ input \in {InputDoc("list", <<t>>) : t \in Strings(MaxStr)}
  /\ file \in WordsFiles
  /\ root = <<>>
  /\ i = 0
  /\ epithet_etymologies = <<>>
  /\ words = {}
  /\ word = <<>>
  /\ log = {}
  /\ committed = file
  /\ writes = 0
  /\ startFile = file
  /\ halt = Running
  /\ prev = Running

\* One run of the program.
NextWords ==
  \/ Main
  \/ NextEpithet
  \/ Finish
  \/ SkipWord
  \/ QueryWord
  \/ ExistsResponse
  \/ DetailResponse
  \/ OpenOutput
  \/ OpenFails
  \/ WriteOutput
  \/ WriteFails
  \/ Interrupt

SpecWords == InitWords /\ [][NextWords]_vars

\* ------------------------------------------------------------------------
\* C17: to_words is monotonic.  Its result for a cleaned epithet has every
\* token of the split on single spaces; the parts of a token are in it
\* exactly when the compound split of that token gives more than one part;
\* the token itself stays, and the parts are not split again.
\* ------------------------------------------------------------------------

\* The parts the compound split gives for a token.
Parts(token) == Split(FinnSyllSplit(token), "=")

C17_Monotonic ==
  [][(pc = "loop" /\ pc' = "words") =>
       LET tokens == Range(Split(clean_epithet(epithet), " "))
       IN  /\ tokens \subseteq words'
           /\ \A t \in tokens :
                Len(Parts(t)) > 1 => Range(Parts(t)) \subseteq words'
           /\ \A w \in words' :
                \/ w \in tokens
                \/ \E t \in tokens : Len(Parts(t)) > 1 /\ w \in Range(Parts(t))]_vars

\* The words of "bba" have been computed: the token, and its parts "bb"
\* and "a"; the part "bb" is a compound of "b" and "b", and "b" is not
\* among the words.
C17_Witness ==
  /\ pc = "words"
  /\ epithet = <<"b", "b", "a">>
  /\ words = {<<"b", "b", "a">>, <<"b", "b">>, <<"a">>}
  /\ Len(Parts(<<"b", "b">>)) > 1
  /\ <<"b">> \notin words

\* ------------------------------------------------------------------------
\* C18: the empty word.  An epithet of disallowed characters only cleans
\* to the empty string and its word set is {""}; a leading, a trailing or
\* a doubled space in the cleaned epithet puts "" into the word set.  The
\* word "" is looked up like any other word unless it is skipped, and it is
\* a key of the epithet's submap in the document that is written.
\* ------------------------------------------------------------------------

\* No character of the string passes clean_epithet.
OnlyDisallowed(t) ==
  \A j \in DOMAIN t : ~Allowed(LowerChar(t[j]))

\* A space at the start, at the end, or next to another space.
SpaceAtEdgeOrDoubled(t) ==
  /\ t # <<>>
  /\ \/ t[1] = " "
     \/ t[Len(t)] = " "
     \/ \E j \in 1..(Len(t) - 1) : t[j] = " " /\ t[j + 1] = " "

C18_EmptyWord ==
  [][/\ (pc = "loop" /\ pc' = "words") =>
          /\ OnlyDisallowed(epithet) =>
               /\ clean_epithet(epithet) = <<>>
               /\ words' = {<<>>}
          /\ SpaceAtEdgeOrDoubled(clean_epithet(epithet)) => <<>> \in words'
     /\ (pc = "words" /\ <<>> \in words /\ <<>> \notin words'
         /\ pc' \in {"words", "exists"}) =>
          /\ (pc' = "exists") <=>
               ~(HasKey(epithet_etymologies, <<>>) /\ ~OVERWRITE_EXISTING)
          /\ (pc' = "exists") => word' = <<>>
     /\ (pc = "opened" /\ pc' = "loop"
         /\ <<>> \in Range(Split(clean_epithet(epithet), " "))) =>
          /\ HasKey(Get(StoreOf(file'), epithet), <<>>)
          /\ \A l \in log :
               l.word = <<>> =>
                 Stored(StoreOf(file'), epithet, <<>>) = Meaning(l)]_vars

\* The epithet "??" has been processed: its submap in the document has the
\* one key "", with the record the lookup of "" found.
C18_Witness ==
  /\ pc = "loop"
  /\ writes = 1
  /\ input.epithets[1] = <<"?", "?">>
  /\ Complete(file)
  /\ Keys(Get(StoreOf(file), <<"?", "?">>)) = {<<>>}
  /\ ~Stored(StoreOf(file), <<"?", "?">>, <<>>).isNull
  /\ \E l \in log : l.word = <<>> /\ ExactMatch(l)

\* ------------------------------------------------------------------------
\* The program under fair scheduling: the process takes its next step, and
\* a request to the lexicon gets a response or fails.  An interrupt may or
\* may not happen.
\* ------------------------------------------------------------------------
Program ==
  \/ Main
  \/ NextEpithet
  \/ Finish
  \/ SkipWord
  \/ QueryWord
  \/ ExistsResponse
  \/ DetailResponse
  \/ OpenOutput
  \/ OpenFails
  \/ WriteOutput
  \/ WriteFails

\* An epithet of one word, "b", which is also a word of E2.
E4 == <<"b">>

\* The input documents of these runs: the lists are of E2 and E4, in every
\* order and with repetitions.
RECURSIVE PassLists(_)
PassLists(n) ==
  IF n = 0 THEN {<<>>}
  ELSE LET shorter == PassLists(n - 1)
       IN  shorter \cup {Append(l, e) : l \in shorter, e \in {E2, E4}}

PassInputs ==
  {InputDoc("missing", <<>>), InputDoc("nokey", <<>>), InputDoc("notseq", <<>>)}
  \cup {InputDoc("list", l) : l \in PassLists(MaxLen)}

\* The runs start from the document an earlier run left: it has another
\* top-level member and the submap of an epithet that is not in the input.
InitPass ==
  /\ pc = "start"
  /\ run = 1
  /\ OVERWRITE_EXISTING \in BOOLEAN
  /\ input \in PassInputs
  /\ file = FileOf(Dumps(SeedRoot))
  /\ root = <<>>
  /\ i = 0
  /\ epithet_etymologies = <<>>
  /\ words = {}
  /\ word = <<>>
  /\ log = {}
  /\ committed = file
  /\ writes = 0
  /\ startFile = file
  /\ halt = Running
  /\ prev = Running

\* One run: the program's steps, and the interrupt.
NextRun == Program \/ Interrupt

FairSpec == InitPass /\ [][NextRun]_vars /\ WF_vars(Program)

\* ------------------------------------------------------------------------
\* C19: frame and termination of a run.  Processing an epithet changes the
\* submap of that epithet only: the submaps of the other epithets and the
\* other top-level members of the loaded root are the same in every
\* complete document the run writes.  The run ends after one pass over the
\* input, and a word of an epithet's word set is looked up at most once
\* for each occurrence of the epithet.
\* ------------------------------------------------------------------------

\* The top-level members of the document in a file, "etymologies" apart.
OtherMembers(f) ==
  IF Complete(f)
  THEN SelectSeq(Loads(f.text).val, LAMBDA m : m.key # "etymologies")
  ELSE <<>>

\* The epithets this run has processed and written.
Processed ==
  IF input.kind = "list" THEN {input.epithets[j] : j \in 1..writes} ELSE {}

\* In a complete document the other members and the submaps of the epithets
\* that were not processed are those of the document the run started from.
FrameOfRun ==
  Complete(file) =>
    /\ OtherMembers(file) = OtherMembers(startFile)
    /\ \A e \in (Keys(StoreOf(file)) \cup Keys(StoreOf(startFile))) \ Processed :
         Held(StoreOf(file), e) = Held(StoreOf(startFile), e)

\* A write changes the submap of the epithet in work only.
FrameOfWrite ==
  (pc = "opened" /\ pc' = "loop") =>
    /\ OtherMembers(file') = OtherMembers(committed)
    /\ \A e \in (Keys(StoreOf(file')) \cup Keys(StoreOf(committed))) \ {epithet} :
         Held(StoreOf(file'), e) = Held(StoreOf(committed), e)

\* A lookup is for a word of the word set of the epithet in work, and the
\* first one for that word at this position.
OncePerOccurrence ==
  (pc = "words" /\ pc' = "exists") =>
    /\ word' \in WordSet(epithet)
    /\ \A l \in log : ~(l.pos = i /\ l.word = word')

\* The loop goes forward: the position moves by one, at the start of the
\* loop and at each completed write, and the words left to look up shrink.
SinglePass ==
  (pc \in Live /\ pc' \in Live /\ run' = run) =>
    /\ i' \in {i, i + 1}
    /\ i' = i + 1 => pc = "start" \/ (pc = "opened" /\ writes' = writes + 1)
    /\ (pc = "words" /\ pc' \in {"words", "exists"}) =>
         (words' \subseteq words /\ words' # words)

\* A run that was started ends.
Terminates == (pc \in Live) ~> (pc \in {"done", "aborted", "crashed"})

C19_FrameAndTermination ==
  /\ []FrameOfRun
  /\ [][FrameOfWrite /\ OncePerOccurrence /\ SinglePass]_vars
  /\ Terminates

\* A run over E2 has ended: the document it started from had the member
\* "meta" and a submap for E1, both are in the document it wrote as they
\* were, next to the new submap of E2, whose words were looked up.
C19_Witness ==
  /\ pc = "done"
  /\ input.kind = "list"
  /\ input.epithets = <<E2>>
  /\ writes = 1
  /\ OtherMembers(startFile) # <<>>
  /\ OtherMembers(file) = OtherMembers(startFile)
  /\ HasKey(StoreOf(startFile), E1)
  /\ Held(StoreOf(file), E1) = Held(StoreOf(startFile), E1)
  /\ Resolved(StoreOf(file), E2)
  /\ {l.word : l \in log} = WordSet(E2)

====
